---- MODULE Spec2Model ----
(***************************************************************************)
(* Model of BlockchainPerformancePrediction/BPR/MLP.py: cli_main, the      *)
(* 5-fold cross-validation / ensemble training run of the MLP regressor.   *)
(*                                                                         *)
(* Python indices are kept 0-based: record r of the CSV is raw_data[r+1],  *)
(* column c of a row is row[c+1].  Real-valued results are kept exact:     *)
(* a cell of the result table is [num, den, root], meaning num/den, or     *)
(* sqrt(num/den) when root is TRUE.                                        *)
(***************************************************************************)
EXTENDS Integers, Sequences, FiniteSets

VARIABLES
    \* command line and environment
    dataset, task, csv_exists, raw_data, perm, levels,
    \* locals of cli_main
    pc, error, bound, X, Y1, results, i, model_dir, folds, kf_pos,
    train_index, test_index, scaler, Xtrain1_minmax, Xtest1_minmax,
    datasets, MLP, result, ckpt, result_csv,
    \* the Trainer and its EarlyStopping callback
    current_epoch, should_stop, best_score, wait_count, callback_metrics,
    \* observation of the validation history of the current fit
    checks, min_seen, min_check,
    \* the steps completed so far in the current fold, in order
    steps

vars == <<dataset, task, csv_exists, raw_data, perm, levels,
          pc, error, bound, X, Y1, results, i, model_dir, folds, kf_pos,
          train_index, test_index, scaler, Xtrain1_minmax, Xtest1_minmax,
          datasets, MLP, result, ckpt, result_csv,
          current_epoch, should_stop, best_score, wait_count, callback_metrics,
          checks, min_seen, min_check, steps>>

env == <<dataset, task, csv_exists, raw_data, perm, levels>>

---------------------------------------------------------------------------
(* Bounds of the model *)

\* largest number of CSV records
MaxN == 6
\* feature values of the CSV range over 0..MaxVal
MaxVal == 1
\* held-out error levels a model can reach range over 0..MaxMAE
MaxMAE == 5
\* number of columns of the CSV
NumCols == 6

(* Program constants *)

n_splits == 5
max_epochs == 500
check_val_every_n_epoch == 10
patience == 10
min_delta == 0
in_features == 2

---------------------------------------------------------------------------
(* Helpers *)

RECURSIVE SumSeq(_)
SumSeq(s) ==
    IF s = <<>> THEN 0 ELSE Head(s) + SumSeq(Tail(s))

\* the k-th smallest element of a set of integers
Nth(S, k) ==
    CHOOSE a \in S : Cardinality({b \in S : b < a}) = k - 1

Permutations(n) ==
    {p \in [1..n -> 0..(n - 1)] : \A a, b \in 1..n : a # b => p[a] # p[b]}

\* raw_data[:, lo:hi]
PySlice(lo, hi) ==
    [k \in 1..(hi - lo) |-> lo + k - 1]

\* a negative column index counts from the end
PyCol(c, ncols) ==
    IF c < 0 THEN ncols + c ELSE c

\* raw_data[:, cols] for a list of columns
SelectCols(data, cols) ==
    [r \in 1..Len(data) |-> [k \in 1..Len(cols) |-> data[r][cols[k] + 1]]]

\* raw_data[:, c].reshape((-1, 1))
SelectCol(data, c) ==
    [r \in 1..Len(data) |-> data[r][PyCol(c, Len(data[r])) + 1]]

\* A[index] for an index set, rows in ascending index order
TakeRows(A, index) ==
    [k \in 1..Cardinality(index) |-> A[Nth(index, k) + 1]]

---------------------------------------------------------------------------
(* KFold(n_splits=5, shuffle=True, random_state=seed).split(X) *)

\* fold sizes that forget the remainder of n // n_splits
FoldSizeNoRemainder(n, f) ==
    n \div n_splits

\* fold_sizes: n // n_splits each, the first n % n_splits folds one more
FoldSize(n, f) ==
    (n \div n_splits) + (IF f <= n % n_splits THEN 1 ELSE 0)

RECURSIVE FoldStart(_, _)
\* position in the shuffled index array where fold f starts
FoldStart(n, f) ==
    IF f = 1 THEN 0 ELSE FoldStart(n, f - 1) + FoldSize(n, f - 1)

\* test indices of fold f: a slice of the shuffled index array
TestIndices(n, p, f) ==
    {p[k] : k \in (FoldStart(n, f) + 1)..(FoldStart(n, f) + FoldSize(n, f))}

\* the folds in the order the generator yields them; train is the mask's complement
KFoldSplit(n, p) ==
    [f \in 1..n_splits |->
        [train |-> (0..(n - 1)) \ TestIndices(n, p, f),
         test  |-> TestIndices(n, p, f)]]

---------------------------------------------------------------------------
(* preprocessing.MinMaxScaler *)

\* np.min and np.max of a column
Min(col) ==
    CHOOSE m \in {col[k] : k \in 1..Len(col)} : \A k \in 1..Len(col) : m <= col[k]

Max(col) ==
    CHOOSE m \in {col[k] : k \in 1..Len(col)} : \A k \in 1..Len(col) : m >= col[k]

Column(A, c) ==
    [r \in 1..Len(A) |-> A[r][c]]

NoScaler ==
    [fitted |-> FALSE, data_min |-> <<>>, data_max |-> <<>>]

\* fit: per-feature minimum and maximum of the matrix it is given
Fit(A) ==
    [fitted   |-> TRUE,
     data_min |-> [c \in 1..Len(A[1]) |-> Min(Column(A, c))],
     data_max |-> [c \in 1..Len(A[1]) |-> Max(Column(A, c))]]

\* data_range with a zero range replaced by 1 (a constant feature)
ScaleDen(s, c) ==
    IF s.data_max[c] = s.data_min[c] THEN 1 ELSE s.data_max[c] - s.data_min[c]

\* transform: (x - data_min) / data_range per feature, as an exact fraction
Transform(s, A) ==
    [r \in 1..Len(A) |->
        [c \in 1..Len(A[r]) |->
            [num |-> A[r][c] - s.data_min[c], den |-> ScaleDen(s, c)]]]

---------------------------------------------------------------------------
(* LitClassifier.evaluate and the metrics it logs *)

\* The held-out metrics of a model are a function of its parameters; a
\* parameter state is identified by its error level l.
Evaluate(l) ==
    [loss |-> (l + 1) * (l + 1), MAE |-> l, RMSE |-> l + 1, MAPE |-> 3 * l]

\* self.log(f"{stage}_loss"), ..._MAE, ..._RMSE, ..._MAPE, in this order
LogDict(stage, l) ==
    << <<stage, "loss", Evaluate(l).loss>>, <<stage, "MAE", Evaluate(l).MAE>>,
       <<stage, "RMSE", Evaluate(l).RMSE>>, <<stage, "MAPE", Evaluate(l).MAPE>> >>

Values(d) ==
    [k \in 1..Len(d) |-> d[k][3]]

Monitored(d, name) ==
    LET k == CHOOSE j \in 1..Len(d) : d[j][2] = name IN d[k][3]

\* list(result[0].values())[1:]
TestRow(l) ==
    Tail(Values(LogDict("test", l)))

---------------------------------------------------------------------------
(* EarlyStopping(monitor="val_MAE", min_delta=0.000, patience=10, mode="min") *)

\* a comparison that counts an equal value as an improvement
ImprovedOrEqual(current, best) ==
    best = <<>> \/ current + min_delta <= best[1]

\* monitor_op(current - min_delta, best_score) with monitor_op = lt and
\* min_delta negated for mode "min"; best_score starts at infinity (<<>>)
Improved(current, best) ==
    best = <<>> \/ current + min_delta < best[1]

\* validation after the epochs with index 0, 10, 20, ...
IsValEpochOffByOne(e) ==
    (e - 1) % check_val_every_n_epoch = 0

\* validation runs after every check_val_every_n_epoch-th epoch
IsValEpoch(e) ==
    e % check_val_every_n_epoch = 0

StopNow(wait) ==
    wait >= patience

---------------------------------------------------------------------------
(* The result table: np.vstack((results, results.mean(0), results.std(0))) *)

Cell(x) ==
    [num |-> x, den |-> 1, root |-> FALSE]

\* results.mean(0): the column sums over the number of rows
Mean0(rows) ==
    [c \in 1..Len(rows[1]) |->
        [num |-> SumSeq(Column(rows, c)), den |-> Len(rows), root |-> FALSE]]

\* sum over the rows of (N*x - S)^2, which is N^2 times the squared deviation
SqDev(col) ==
    SumSeq([k \in 1..Len(col) |->
        (Len(col) * col[k] - SumSeq(col)) * (Len(col) * col[k] - SumSeq(col))])

\* the divisor of the sample standard deviation (ddof = 1)
SampleStdDivisor(N) ==
    N - 1

\* the divisor of numpy's std is N - ddof, ddof = 0 by default
StdDivisor(N) ==
    N

\* results.std(0): sqrt(mean(abs(x - x.mean())**2)) per column
Std0(rows) ==
    [c \in 1..Len(rows[1]) |->
        [num  |-> SqDev(Column(rows, c)),
         den  |-> Len(rows) * Len(rows) * StdDivisor(Len(rows)),
         root |-> TRUE]]

ResultRows(rows) ==
    [k \in 1..Len(rows) |-> [c \in 1..Len(rows[k]) |-> Cell(rows[k][c])]]
        \o <<Mean0(rows)>> \o <<Std0(rows)>>

\* resultpd.columns: set for the two known tasks, pandas' 0, 1, 2 otherwise
ColumnNames(t) ==
    IF t = "Throughput"
    THEN <<"throughput_MAE", "throughput_RMSE", "throughput_MAPE">>
    ELSE IF t = "Latency"
    THEN <<"latency_MAE", "latency_RMSE", "latency_MAPE">>
    ELSE <<"0", "1", "2">>

NoFile ==
    [written |-> FALSE, columns |-> <<>>, rows |-> <<>>]

---------------------------------------------------------------------------
(* Column selection of the Load step *)

Datasets == {"BPD-1", "HFBTP", "MMBPD"}
Tasks == {"Throughput", "Latency"}

\* the feature columns per dataset; <<>> when no branch matches
FeatureCols(d) ==
    IF d = "BPD-1" THEN PySlice(0, 2)
    ELSE IF d = "HFBTP" THEN PySlice(0, 3)
    ELSE IF d = "MMBPD" THEN PySlice(1, 3)
    ELSE <<>>

\* the target column per dataset and task: the else branch takes every task
\* that is not "Latency"
TargetCol(d, t) ==
    IF d = "BPD-1" THEN (IF t = "Latency" THEN 2 ELSE 3)
    ELSE IF d = "HFBTP" THEN (IF t = "Latency" THEN 4 ELSE 3)
    ELSE (IF t = "Latency" THEN 4 ELSE -2)

Xtrain1 == TakeRows(X, train_index)
Xtest1 == TakeRows(X, test_index)

---------------------------------------------------------------------------
(* Initial states *)

NoModel ==
    [born |-> 0, level |-> 0, in_features |-> 0]

\* the state of cli_main before its first statement
InitLocals ==
    /\ pc = "load"
    /\ error = "none"
    /\ bound = {}
    /\ X = <<>>
    /\ Y1 = <<>>
    /\ results = <<>>
    /\ i = 0
    /\ model_dir = FALSE
    /\ folds = <<>>
    /\ kf_pos = 0
    /\ train_index = {}
    /\ test_index = {}
    /\ scaler = NoScaler
    /\ Xtrain1_minmax = <<>>
    /\ Xtest1_minmax = <<>>
    /\ datasets = [train |-> 0, val |-> 0, test |-> 0]
    /\ MLP = NoModel
    /\ result = <<>>
    /\ ckpt = <<>>
    /\ result_csv = NoFile
    /\ current_epoch = 0
    /\ should_stop = FALSE
    /\ best_score = <<>>
    /\ wait_count = 0
    /\ callback_metrics = <<>>
    /\ checks = 0
    /\ min_seen = <<>>
    /\ min_check = 0
    /\ steps = <<>>

\* a CSV of n records whose cell (r, c) holds (r + c) mod (MaxVal + 1)
SampleData(n) ==
    [r \in 1..n |-> [c \in 1..NumCols |-> (r + c) % (MaxVal + 1)]]

\* a CSV of n records with the given values in columns 1 and 2, 0 elsewhere
FeatureData(n, f) ==
    [r \in 1..n |-> [c \in 1..NumCols |-> IF c \in {2, 3} THEN f[r][c - 1] ELSE 0]]

\* the shuffle that reverses the index array
SamplePerm(n) ==
    [k \in 1..n |-> n - k]

\* the shuffles that rotate the index array
Rotations(n) ==
    {[k \in 1..n |-> (k - 1 + s) % n] : s \in 0..(n - 1)}

\* levels[f] is the set of held-out error levels the model of fold f can be
\* at: two levels in every fold, or every level of 0..MaxMAE in the first
TwoLevels ==
    [f \in 1..n_splits |-> {1, 2}]

RichFirst ==
    [f \in 1..n_splits |-> IF f = 1 THEN 0..MaxMAE ELSE {1, 2}]

\* the whole run: every dataset and task argument, with the CSV present or
\* not; the run with the default arguments also with the rich first fold
Init ==
    /\ InitLocals
    /\ dataset \in Datasets \cup {"Other"}
    /\ task \in Tasks \cup {"Other"}
    /\ csv_exists \in BOOLEAN
    /\ raw_data = SampleData(n_splits)
    /\ perm = SamplePerm(n_splits)
    /\ levels \in IF dataset = "MMBPD" /\ task = "Throughput" /\ csv_exists
                  THEN {TwoLevels, RichFirst} ELSE {TwoLevels}

---------------------------------------------------------------------------
(* cli_main, statement by statement *)

trainerVars == <<current_epoch, should_stop, best_score, wait_count,
                 callback_metrics, checks, min_seen, min_check>>
foldVars == <<train_index, test_index, scaler, Xtrain1_minmax, Xtest1_minmax,
              datasets>>

Abort(e) ==
    /\ pc' = "aborted"
    /\ error' = e

\* pd.read_csv and the column selection
Load ==
    /\ pc = "load"
    /\ IF ~csv_exists
       THEN /\ Abort("FileNotFoundError")
            /\ UNCHANGED <<bound, X, Y1>>
       ELSE IF dataset \in Datasets
       THEN /\ bound' = {"X", "Y1"}
            /\ X' = SelectCols(raw_data, FeatureCols(dataset))
            /\ Y1' = SelectCol(raw_data, TargetCol(dataset, task))
            /\ pc' = "split"
            /\ UNCHANGED error
       ELSE /\ pc' = "split"
            /\ UNCHANGED <<error, bound, X, Y1>>
    /\ UNCHANGED <<env, results, i, model_dir, folds, kf_pos, foldVars, MLP,
                   result, ckpt, result_csv, trainerVars>>
    /\ UNCHANGED steps

\* results = [], KFold(...), i = 1, os.makedirs(model/...), KF.split(X)
Split ==
    /\ pc = "split"
    /\ results' = <<>>
    /\ i' = 1
    /\ model_dir' = TRUE
    /\ IF "X" \notin bound
       THEN /\ Abort("UnboundLocalError")
            /\ UNCHANGED <<folds, kf_pos>>
       ELSE IF Len(X) < n_splits
       THEN /\ Abort("ValueError")
            /\ UNCHANGED <<folds, kf_pos>>
       ELSE /\ folds' = KFoldSplit(Len(X), perm)
            /\ kf_pos' = 0
            /\ pc' = "for"
            /\ UNCHANGED error
    /\ UNCHANGED <<env, bound, X, Y1, foldVars, MLP, result, ckpt, result_csv,
                   trainerVars>>
    /\ UNCHANGED steps

\* for train_index, test_index in KF.split(X): the next fold, or the loop's end
NextFold ==
    /\ pc = "for"
    /\ IF kf_pos < n_splits
       THEN /\ kf_pos' = kf_pos + 1
            /\ train_index' = folds[kf_pos + 1].train
            /\ test_index' = folds[kf_pos + 1].test
            /\ pc' = "fit_transform"
       ELSE /\ pc' = "aggregate"
            /\ UNCHANGED <<kf_pos, train_index, test_index>>
    /\ UNCHANGED <<env, error, bound, X, Y1, results, i, model_dir, folds,
                   scaler, Xtrain1_minmax, Xtest1_minmax, datasets, MLP,
                   result, ckpt, result_csv, trainerVars>>
    /\ steps' = IF kf_pos < n_splits THEN <<>> ELSE steps

\* min_max_scaler1 = MinMaxScaler(); min_max_scaler1.fit_transform(Xtrain1)
FitTransform ==
    /\ pc = "fit_transform"
    /\ scaler' = Fit(Xtrain1)
    /\ Xtrain1_minmax' = Transform(scaler', Xtrain1)
    /\ pc' = "transform"
    /\ UNCHANGED <<env, error, bound, X, Y1, results, i, model_dir, folds,
                   kf_pos, train_index, test_index, Xtest1_minmax, datasets,
                   MLP, result, ckpt, result_csv, trainerVars>>
    /\ UNCHANGED steps

\* a transform that fits the scaler again on the matrix it is given
RefitOnTransform(s, A) ==
    Fit(A)

\* the scaler after min_max_scaler1.transform(A): transform does not fit
AfterTransform(s, A) ==
    s

\* Xtest1_minmax = min_max_scaler1.transform(Xtest1)
TransformTest ==
    /\ pc = "transform"
    /\ Xtest1_minmax' = Transform(scaler, Xtest1)
    /\ scaler' = AfterTransform(scaler, Xtest1)
    /\ pc' = "wrap"
    /\ UNCHANGED <<env, error, bound, X, Y1, results, i, model_dir, folds,
                   kf_pos, train_index, test_index, Xtrain1_minmax, datasets,
                   MLP, result, ckpt, result_csv, trainerVars>>
    /\ steps' = Append(steps, "scale")

\* the three BlockChainDataset objects and their loaders
Wrap ==
    /\ pc = "wrap"
    /\ datasets' = [train |-> Len(Xtrain1_minmax), val |-> Len(Xtest1_minmax),
                    test |-> Len(Xtest1_minmax)]
    /\ pc' = "construct"
    /\ UNCHANGED <<env, error, bound, X, Y1, results, i, model_dir, folds,
                   kf_pos, train_index, test_index, scaler, Xtrain1_minmax,
                   Xtest1_minmax, MLP, result, ckpt, result_csv, trainerVars>>
    /\ steps' = Append(steps, "wrap")

\* MLP = Backbone(), a fresh EarlyStopping and a fresh Trainer
Construct ==
    /\ pc = "construct"
    /\ \E l \in levels[kf_pos] :
           MLP' = [born |-> kf_pos, level |-> l, in_features |-> in_features]
    /\ current_epoch' = 0
    /\ should_stop' = FALSE
    /\ best_score' = <<>>
    /\ wait_count' = 0
    /\ callback_metrics' = <<>>
    /\ checks' = 0
    /\ min_seen' = <<>>
    /\ min_check' = 0
    /\ pc' = "fit"
    /\ UNCHANGED <<env, error, bound, X, Y1, results, i, model_dir, folds,
                   kf_pos, foldVars, result, ckpt, result_csv>>
    /\ steps' = Append(steps, "construct")

\* trainer.fit begins: the first forward pass (fc1 on a batch of X rows)
FitStart ==
    /\ pc = "fit"
    /\ IF MLP.in_features # Len(X[1])
       THEN Abort("RuntimeError")
       ELSE pc' = "train" /\ UNCHANGED error
    /\ UNCHANGED <<env, bound, X, Y1, results, i, model_dir, folds, kf_pos,
                   foldVars, MLP, result, ckpt, result_csv, trainerVars>>
    /\ UNCHANGED steps

\* the EarlyStopping check on a validation result with val_MAE = current
EarlyStoppingCheck(current) ==
    IF Improved(current, best_score)
    THEN /\ best_score' = <<current>>
         /\ wait_count' = 0
         /\ should_stop' = should_stop
    ELSE /\ best_score' = best_score
         /\ wait_count' = wait_count + 1
         /\ should_stop' = (should_stop \/ StopNow(wait_count + 1))

\* the validation history: number of checks, lowest val_MAE, check that set it
Observe(current) ==
    /\ checks' = checks + 1
    /\ IF min_seen = <<>> \/ current < min_seen[1]
       THEN min_seen' = <<current>> /\ min_check' = checks + 1
       ELSE UNCHANGED <<min_seen, min_check>>

\* one training epoch, with the validation run and the early-stopping check
\* when the epoch is a validation epoch
TrainEpoch ==
    /\ pc = "train"
    /\ ~should_stop
    /\ current_epoch < max_epochs
    /\ \E l \in levels[kf_pos] :
        /\ MLP' = [MLP EXCEPT !.level = l]
        /\ current_epoch' = current_epoch + 1
        /\ IF IsValEpoch(current_epoch + 1)
           THEN /\ callback_metrics' = LogDict("val", l)
                /\ EarlyStoppingCheck(Monitored(LogDict("val", l), "MAE"))
                /\ Observe(Monitored(LogDict("val", l), "MAE"))
           ELSE UNCHANGED <<callback_metrics, best_score, wait_count,
                            should_stop, checks, min_seen, min_check>>
    /\ UNCHANGED <<env, pc, error, bound, X, Y1, results, i, model_dir, folds,
                   kf_pos, foldVars, result, ckpt, result_csv>>
    /\ UNCHANGED steps

\* a validation failure that is caught: fit returns as if training had ended
ValidationSwallowed ==
    /\ pc = "train"
    /\ ~should_stop
    /\ current_epoch < max_epochs
    /\ IsValEpoch(current_epoch + 1)
    /\ pc' = "save"
    /\ error' = "ValueError"
    /\ UNCHANGED <<env, bound, X, Y1, results, i, model_dir, folds, kf_pos,
                   foldVars, MLP, result, ckpt, result_csv, trainerVars>>
    /\ steps' = Append(steps, "train")

\* a validation run in which evaluate raises (the metric functions reject
\* non-finite predictions)
ValidationFails ==
    /\ pc = "train"
    /\ ~should_stop
    /\ current_epoch < max_epochs
    /\ IsValEpoch(current_epoch + 1)
    /\ Abort("ValueError")
    /\ UNCHANGED <<env, bound, X, Y1, results, i, model_dir, folds, kf_pos,
                   foldVars, MLP, result, ckpt, result_csv, trainerVars>>
    /\ UNCHANGED steps

\* fit returns and the parameters are not saved
FitDoneNoSave ==
    /\ pc = "train"
    /\ should_stop \/ current_epoch >= max_epochs
    /\ pc' = "test"
    /\ UNCHANGED <<env, error, bound, X, Y1, results, i, model_dir, folds,
                   kf_pos, foldVars, MLP, result, ckpt, result_csv, trainerVars>>
    /\ steps' = Append(steps, "train")

\* trainer.fit returns: early stopping asked for it or the epochs are used up
FitDone ==
    /\ pc = "train"
    /\ should_stop \/ current_epoch >= max_epochs
    /\ pc' = "save"
    /\ UNCHANGED <<env, error, bound, X, Y1, results, i, model_dir, folds,
                   kf_pos, foldVars, MLP, result, ckpt, result_csv, trainerVars>>
    /\ steps' = Append(steps, "train")

\* the file index when i is incremented before the save
SaveIndexAhead ==
    i + 1

\* the file index torch.save writes to
SaveIndex ==
    i

\* torch.save(MLP.state_dict(), model/<dataset>/<task>/Ensemble<i>.ckpt)
Save ==
    /\ pc = "save"
    /\ ckpt' = [k \in DOMAIN ckpt \cup {SaveIndex} |->
                  IF k = SaveIndex
                  THEN [born   |-> MLP.born,
                        level  |-> MLP.level,
                        fold   |-> kf_pos,
                        writes |-> IF k \in DOMAIN ckpt
                                   THEN ckpt[k].writes + 1 ELSE 1]
                  ELSE ckpt[k]]
    /\ pc' = "test"
    /\ UNCHANGED <<env, error, bound, X, Y1, results, i, model_dir, folds,
                   kf_pos, foldVars, MLP, result, result_csv, trainerVars>>
    /\ steps' = Append(steps, "persist")

\* result = trainer.test(model, test_loader); result = list(...)[1:]
Test ==
    /\ pc = "test"
    /\ result' = TestRow(MLP.level)
    /\ pc' = "append"
    /\ UNCHANGED <<env, error, bound, X, Y1, results, i, model_dir, folds,
                   kf_pos, foldVars, MLP, ckpt, result_csv, trainerVars>>
    /\ steps' = Append(steps, "evaluate")

\* trainer.test raises
TestFails ==
    /\ pc = "test"
    /\ Abort("ValueError")
    /\ UNCHANGED <<env, bound, X, Y1, results, i, model_dir, folds, kf_pos,
                   foldVars, MLP, result, ckpt, result_csv, trainerVars>>
    /\ UNCHANGED steps

\* i = i + 1; results.append(result)
AppendResult ==
    /\ pc = "append"
    /\ i' = i + 1
    /\ results' = Append(results, result)
    /\ pc' = "for"
    /\ UNCHANGED <<env, error, bound, X, Y1, model_dir, folds, kf_pos,
                   foldVars, MLP, result, ckpt, result_csv, trainerVars>>
    /\ steps' = Append(steps, "append")

\* the result table, its column names, and resultpd.to_csv
Aggregate ==
    /\ pc = "aggregate"
    /\ result_csv' = [written |-> TRUE,
                      columns |-> ColumnNames(task),
                      rows    |-> ResultRows(results)]
    /\ pc' = "done"
    /\ UNCHANGED <<env, error, bound, X, Y1, results, i, model_dir, folds,
                   kf_pos, foldVars, MLP, result, ckpt, trainerVars>>
    /\ UNCHANGED steps

Next ==
    \/ Load
    \/ Split
    \/ NextFold
    \/ FitTransform
    \/ TransformTest
    \/ Wrap
    \/ Construct
    \/ FitStart
    \/ TrainEpoch
    \/ ValidationFails
    \/ FitDone
    \/ Save
    \/ Test
    \/ TestFails
    \/ AppendResult
    \/ Aggregate

Spec == Init /\ [][Next]_vars

---------------------------------------------------------------------------
(* The Split step alone, over every CSV size and every shuffle *)

InitSplit ==
    /\ InitLocals
    /\ dataset \in Datasets
    /\ task \in Tasks
    /\ csv_exists = TRUE
    /\ \E n \in n_splits..MaxN :
           /\ raw_data = SampleData(n)
           /\ perm \in Permutations(n)
    /\ levels = TwoLevels

NextSplit ==
    \/ Load
    \/ Split

SpecSplit == InitSplit /\ [][NextSplit]_vars

(* The first fold up to the scaled splits, over every feature matrix *)

InitScale ==
    /\ InitLocals
    /\ dataset = "MMBPD"
    /\ task = "Throughput"
    /\ csv_exists = TRUE
    /\ \E f \in [1..n_splits -> [1..2 -> 0..MaxVal]] :
           raw_data = FeatureData(n_splits, f)
    /\ perm \in Rotations(n_splits)
    /\ levels = TwoLevels

NextScale ==
    \/ Load
    \/ Split
    \/ NextFold
    \/ FitTransform
    \/ TransformTest

SpecScale == InitScale /\ [][NextScale]_vars

---------------------------------------------------------------------------
(* Claims *)

Indices == 0..(Len(X) - 1)

\* C1: once the Split step has produced the 5 folds of a dataset of n >= 5
\* records, in every fold the train and the test index sets are disjoint and
\* together are exactly 0..n-1, and every index is in the test set of exactly
\* one fold.
C1_FoldsPartition ==
    (pc = "for" /\ Len(X) >= 5) =>
        /\ Len(folds) = 5
        /\ \A f \in 1..5 :
              /\ folds[f].train \cap folds[f].test = {}
              /\ folds[f].train \cup folds[f].test = Indices
        /\ \A r \in Indices :
              Cardinality({f \in 1..5 : r \in folds[f].test}) = 1

\* a split of 6 records under a shuffle that moves every index: the folds
\* have unequal sizes
C1_Witness ==
    /\ pc = "for"
    /\ Len(X) = 6
    /\ \A k \in 1..6 : perm[k] # k - 1
    /\ Cardinality(folds[1].test) = 2
    /\ Cardinality(folds[5].test) = 1

Recognized ==
    /\ dataset \in {"BPD-1", "HFBTP", "MMBPD"}
    /\ task \in {"Throughput", "Latency"}

\* C2: for every (dataset, task) pair that is not a recognized combination
\* the Load step fails: no column is selected by default, no fold is trained
\* and no result file is written.
C2_UnrecognizedFailsAtLoad ==
    ~Recognized =>
        /\ pc \in {"load", "aborted"}
        /\ bound = {}
        /\ kf_pos = 0
        /\ current_epoch = 0
        /\ ~result_csv.written

\* C3: while the training of a fold can still run an epoch, fewer than 10
\* validation checks have passed since the check N that last lowered the
\* lowest val_MAE seen (so training halts no later than check N + 10); and
\* early stopping has halted training only when at least 10 checks in a row
\* brought no val_MAE strictly below the best one.
C3_EarlyStopping ==
    /\ (pc = "train" /\ ENABLED TrainEpoch) => checks - min_check < 10
    /\ (pc \in {"train", "save"} /\ should_stop) => checks - min_check >= 10

\* training halted at check 15 after the last improvement at check 5
C3_Witness ==
    /\ pc = "save"
    /\ should_stop
    /\ min_check = 5
    /\ checks = 15

\* the values of feature c in the records of an index set
FeatureVals(index, c) == {X[r + 1][c] : r \in index}

\* C4: after the fit on the train split, and still after the transform of the
\* held-out split, the scaler's minimum (maximum) of every feature is a value
\* of a train record that no train record is below (above): it is the
\* minimum (maximum) over the fold's train records alone.
C4_ScalerFromTrainOnly ==
    pc \in {"transform", "wrap"} =>
        /\ scaler.fitted
        /\ \A c \in 1..Len(X[1]) :
              /\ scaler.data_min[c] \in FeatureVals(train_index, c)
              /\ scaler.data_max[c] \in FeatureVals(train_index, c)
              /\ \A v \in FeatureVals(train_index, c) :
                    scaler.data_min[c] <= v /\ v <= scaler.data_max[c]

\* the held-out split has been transformed and holds a value above the
\* train maximum of a feature and a value below the train minimum of another
C4_Witness ==
    /\ pc = "wrap"
    /\ \E c \in 1..Len(X[1]) : \E v \in FeatureVals(test_index, c) :
           v > scaler.data_max[c]
    /\ \E c \in 1..Len(X[1]) : \E v \in FeatureVals(test_index, c) :
           v < scaler.data_min[c]
    /\ Len(Xtest1_minmax) = Cardinality(test_index)

\* the held-out metrics of fold k: those of the parameters saved for it
HeldOut(k) ==
    <<Evaluate(ckpt[k].level).MAE, Evaluate(ckpt[k].level).RMSE,
      Evaluate(ckpt[k].level).MAPE>>

ColSum(c) == HeldOut(1)[c] + HeldOut(2)[c] + HeldOut(3)[c] + HeldOut(4)[c]
             + HeldOut(5)[c]

ColSumSq(c) == HeldOut(1)[c] * HeldOut(1)[c] + HeldOut(2)[c] * HeldOut(2)[c]
               + HeldOut(3)[c] * HeldOut(3)[c] + HeldOut(4)[c] * HeldOut(4)[c]
               + HeldOut(5)[c] * HeldOut(5)[c]

\* C5: the written result table has 7 rows of 3 columns (MAE, RMSE, MAPE):
\* rows 1..5 are the held-out metrics of folds 1..5 in order, row 6 is the
\* column mean of rows 1..5 and row 7 their population standard deviation
\* (the square root of the mean of the squares minus the square of the mean).
C5_ResultTable ==
    result_csv.written =>
        /\ Len(result_csv.rows) = 7
        /\ \A k \in 1..7 : Len(result_csv.rows[k]) = 3
        /\ \A k \in 1..5 : \A c \in 1..3 :
              result_csv.rows[k][c] = [num |-> HeldOut(k)[c], den |-> 1, root |-> FALSE]
        /\ \A c \in 1..3 :
              /\ ~result_csv.rows[6][c].root
              /\ 5 * result_csv.rows[6][c].num = result_csv.rows[6][c].den * ColSum(c)
              /\ result_csv.rows[7][c].root
              /\ 25 * result_csv.rows[7][c].num
                    = result_csv.rows[7][c].den * (5 * ColSumSq(c) - ColSum(c) * ColSum(c))

\* a written table whose folds did not all reach the same metrics
C5_Witness ==
    /\ result_csv.written
    /\ ckpt[1].level # ckpt[2].level
    /\ ckpt[4].level # ckpt[5].level
    /\ result_csv.rows[7][1].num > 0

\* C6: every model file Ensemble<f>.ckpt that exists was written exactly
\* once, during fold f, with the parameters of the model constructed and
\* trained in fold f; and after a complete run the files are exactly those
\* with index 1..5.
C6_OneFilePerFold ==
    /\ \A f \in DOMAIN ckpt :
          /\ ckpt[f].writes = 1
          /\ ckpt[f].fold = f
          /\ ckpt[f].born = f
    /\ pc = "done" => DOMAIN ckpt = 1..5

\* a complete run whose folds saved different parameters
C6_Witness ==
    /\ pc = "done"
    /\ DOMAIN ckpt = 1..5
    /\ ckpt[2].level # ckpt[3].level

\* C7: when training or evaluation of fold k has failed the run has stopped
\* for good in fold k, with the rows of the k - 1 folds before it only and no
\* result file; the result file is written only after all 5 folds completed.
C7_FoldFailureAborts ==
    /\ error \in {"ValueError", "RuntimeError"} =>
          /\ pc = "aborted"
          /\ ~ENABLED Next
          /\ kf_pos >= 1
          /\ Len(results) = kf_pos - 1
          /\ ~result_csv.written
    /\ result_csv.written =>
          /\ error = "none"
          /\ kf_pos = 5
          /\ Len(results) = 5

\* the evaluation of fold 3 failed after two complete folds
C7_Witness ==
    /\ pc = "aborted"
    /\ error = "ValueError"
    /\ kf_pos = 3
    /\ steps = <<"scale", "wrap", "construct", "train", "persist">>
    /\ Len(results) = 2

IsPrefix(s, t) ==
    Len(s) <= Len(t) /\ \A k \in 1..Len(s) : s[k] = t[k]

C9_InputDimMatches ==
    /\ MLP.born >= 1 =>
          /\ MLP.in_features = Len(X[1])
          /\ Len(X[1]) = (IF dataset = "HFBTP" THEN 3 ELSE 2)
    /\ error # "RuntimeError"

\* an upper bound on the number of statements the run can still execute
FoldBudget == max_epochs + 20

Remaining ==
    LET base == (n_splits - kf_pos) * FoldBudget + 3
    IN CASE pc = "load" -> (n_splits + 1) * FoldBudget + 2
         [] pc = "split" -> (n_splits + 1) * FoldBudget + 1
         [] pc = "for" -> base
         [] pc = "fit_transform" -> base + max_epochs + 10
         [] pc = "transform" -> base + max_epochs + 9
         [] pc = "wrap" -> base + max_epochs + 8
         [] pc = "construct" -> base + max_epochs + 7
         [] pc = "fit" -> base + max_epochs + 6
         [] pc = "train" -> base + 5 + (max_epochs - current_epoch)
         [] pc = "save" -> base + 4
         [] pc = "test" -> base + 3
         [] pc = "append" -> base + 2
         [] pc = "aggregate" -> 1
         [] OTHER -> 0

C10_Bounds ==
    /\ current_epoch <= 500
    /\ checks <= 50
    /\ pc = "save" => should_stop \/ current_epoch = 500
    /\ pc \notin {"done", "aborted"} => ENABLED Next
    /\ pc = "aborted" => error # "none"
    /\ pc = "done" => kf_pos = 5 /\ Len(results) = 5 /\ result_csv.written

C10_Step ==
    /\ Remaining' < Remaining
    /\ checks' # checks =>
          \/ checks' = 0 /\ current_epoch' = 0
          \/ checks' = checks + 1 /\ current_epoch' % 10 = 0

\* C10: training never passes epoch 500 nor 50 validation checks, a check
\* happens only on reaching an epoch that is a multiple of 10, fit returns
\* only when early stopping asked for it or at epoch 500, every statement
\* lowers the bound Remaining on the statements left, and the run can always
\* take a step until it has failed or has completed its 5 folds and written
\* the result file (all of it stated of every step and of both its states).
C10_Terminates ==
    [][C10_Bounds /\ C10_Bounds' /\ C10_Step]_vars

\* the training of a fold ended on reaching epoch 500, never stopped early
C10_Witness ==
    /\ pc = "save"
    /\ current_epoch = 500
    /\ checks = 50
    /\ ~should_stop

====
